---- MODULE Spec2Model ----
(***************************************************************************)
(* Model of kivy/core/clipboard/__init__.py: the ClipboardBase text shim   *)
(* (copy / paste over a backend's get / put / get_types), the platform     *)
(* ordered candidate list _clipboards, the selection of the Clipboard      *)
(* singleton and the construction of the Linux CutBuffer handle.           *)
(*                                                                         *)
(* Text (str) is a sequence of code points, bytes a sequence of 0..255,    *)
(* two distinct types as in Python 3.                                      *)
(* A Python value handed to or returned by a backend is a record           *)
(* [t |-> "str" | "bytes" | "none", v |-> sequence].                       *)
(***************************************************************************)
EXTENDS Integers, Sequences, FiniteSets, TLC

\* Longest text given to copy.
MaxLen == 2

Platforms == {"win", "linux", "android", "macosx", "ios"}

\* Code points of the texts given to copy: NUL and 'A' (both ASCII).
Chars == {0, 65}

MIME_UTF8 == "text/plain;charset=utf-8"
MIME_PLAIN == "text/plain"
Mimes == {MIME_UTF8, MIME_PLAIN}

Objects == {"o1", "o2"}
None == "None"

NoneV == [t |-> "none", v |-> <<>>]
Str(s) == [t |-> "str", v |-> s]
Bytes(b) == [t |-> "bytes", v |-> b]

SeqsUpTo(S, n) == UNION {[1..k -> S] : k \in 0..n}
StrVals == {Str(s) : s \in SeqsUpTo(Chars, MaxLen)}
\* Arguments of copy(): text, bytes, or None.
CopyArgs == StrVals \cup {Bytes(<<>>), Bytes(<<65>>), NoneV}
\* Arguments of put() (the clipboard entry is opaque): bytes with a NUL,
\* the UTF-8 pair C3 A9 (U+00E9), a stray continuation byte, a lone NUL
\* (odd length), and text with an embedded NUL.
PutArgs ==
    {Bytes(<<65, 0>>), Bytes(<<195, 169>>), Bytes(<<169, 65>>), Bytes(<<0>>),
     Str(<<65, 0>>)}

Range(s) == {s[i] : i \in DOMAIN s}

VARIABLES
    platform,     \* kivy.utils.platform
    USE_SDL2,     \* kivy.setupconfig.USE_SDL2
    imports,      \* per backend module: "untried", "ok" or "failed"
    pc,           \* position in the module body: "select", "cutbuffer", "ready", "failed"
    idx,          \* core_select_lib's position in _clipboards
    Clipboard,    \* the module global Clipboard: an object, or None
    CutBuffer,    \* the module global CutBuffer: an object, or None
    cls,          \* the class of each constructed object
    attr,         \* per object: _clip_mime_type / _encoding, or unset
    entry,        \* per object: the clipboard entry its backend addresses
    last          \* the last public call: its arguments, result and backend calls

vars == <<platform, USE_SDL2, imports, pc, idx, Clipboard, CutBuffer,
          cls, attr, entry, last>>
env == <<platform, USE_SDL2>>

----------------------------------------------------------------------------
(* The candidate list, module body lines 122-150.                          *)

PlatformCandidates(p) ==
    IF p = "android" THEN << <<"android", "clipboard_android", "ClipboardAndroid">> >>
    ELSE IF p = "macosx" THEN << <<"nspaste", "clipboard_nspaste", "ClipboardNSPaste">> >>
    ELSE IF p = "win" THEN << <<"winctypes", "clipboard_winctypes", "ClipboardWindows">> >>
    ELSE IF p = "linux" THEN
        << <<"dbusklipper", "clipboard_dbusklipper", "ClipboardDbusKlipper">>,
           <<"gtk3", "clipboard_gtk3", "ClipboardGtk3">>,
           <<"xsel", "clipboard_xsel", "ClipboardXsel">> >>
    ELSE << >>

WindowCandidates(p, sdl2) ==
    IF sdl2
    THEN IF p # "linux"
         THEN << <<"sdl2", "clipboard_sdl2", "ClipboardSDL2">> >>
         ELSE << >>
    ELSE << <<"pygame", "clipboard_pygame", "ClipboardPygame">> >>

DummyCandidate == <<"dummy", "clipboard_dummy", "ClipboardDummy">>

\* Variant: the no-op candidate appended inside the `else` of USE_SDL2.
_clipboards_dummy_in_else(p, sdl2) ==
    PlatformCandidates(p) \o WindowCandidates(p, sdl2)
        \o (IF sdl2 THEN << >> ELSE <<DummyCandidate>>)

_clipboards(p, sdl2) ==
    PlatformCandidates(p) \o WindowCandidates(p, sdl2) \o <<DummyCandidate>>

\* Every backend module some list names.
Modules ==
    UNION {{c[2] : c \in Range(_clipboards(p, sdl2))} :
              p \in Platforms, sdl2 \in BOOLEAN}

----------------------------------------------------------------------------
(* str.encode / bytes.decode(errors='ignore') / str.replace, as Python     *)
(* computes them, for code points below U+0800 and bytes below 0xE0 (the   *)
(* values Chars and ByteVals can produce).                                  *)

RECURSIVE utf8_encode(_)
utf8_encode(s) ==
    IF s = <<>> THEN <<>>
    ELSE LET c == Head(s)
         IN (IF c < 128 THEN <<c>>
             ELSE <<192 + (c \div 64), 128 + (c % 64)>>) \o utf8_encode(Tail(s))

RECURSIVE utf16le_encode(_)
utf16le_encode(s) ==
    IF s = <<>> THEN <<>>
    ELSE <<Head(s) % 256, Head(s) \div 256>> \o utf16le_encode(Tail(s))

encode(encoding, s) ==
    IF encoding = "utf-16-le" THEN utf16le_encode(s) ELSE utf8_encode(s)

IsContinuation(x) == x >= 128 /\ x <= 191

\* A byte that cannot be decoded (a stray continuation byte, a lead byte
\* whose continuation is missing) is dropped and decoding resumes after it.
RECURSIVE utf8_decode_ignore(_)
utf8_decode_ignore(b) ==
    IF b = <<>> THEN <<>>
    ELSE LET x == Head(b)
         IN IF x < 128 THEN <<x>> \o utf8_decode_ignore(Tail(b))
            ELSE IF x >= 194 /\ x <= 223 /\ Len(b) >= 2 /\ IsContinuation(b[2])
                 THEN <<(x - 192) * 64 + (b[2] - 128)>>
                          \o utf8_decode_ignore(Tail(Tail(b)))
                 ELSE utf8_decode_ignore(Tail(b))

\* Two bytes make one code unit, low byte first; a trailing odd byte is
\* truncated data and is dropped.
RECURSIVE utf16le_decode_ignore(_)
utf16le_decode_ignore(b) ==
    IF Len(b) < 2 THEN <<>>
    ELSE <<b[1] + 256 * b[2]>> \o utf16le_decode_ignore(Tail(Tail(b)))

decode_ignore(encoding, b) ==
    IF encoding = "utf-16-le" THEN utf16le_decode_ignore(b)
    ELSE utf8_decode_ignore(b)

\* data.replace(u'\x00', u'')
RECURSIVE replace_nul(_)
replace_nul(s) ==
    IF s = <<>> THEN <<>>
    ELSE (IF Head(s) = 0 THEN <<>> ELSE <<Head(s)>>) \o replace_nul(Tail(s))

----------------------------------------------------------------------------
(* ClipboardBase, lines 35-119.                                             *)

Unset == [_clip_mime_type |-> "", _encoding |-> ""]

\* _ensure_clipboard: the attributes of the object afterwards, given the
\* attributes a before.
_ensure_clipboard(a, p) ==
    IF a # Unset THEN a
    ELSE IF p = "win"
         THEN [_clip_mime_type |-> MIME_UTF8, _encoding |-> "utf-16-le"]
    ELSE IF p = "linux"
         THEN [_clip_mime_type |-> MIME_UTF8, _encoding |-> "utf-8"]
    ELSE [_clip_mime_type |-> MIME_PLAIN, _encoding |-> "utf-8"]

\* The stubs of ClipboardBase, which the no-op backend answers with.
\* Variant: get answers an empty text instead of None.
ClipboardBase_get_empty(e, mimetype) == Str(<<>>)
ClipboardBase_get(e, mimetype) == NoneV
ClipboardBase_put(e, data, mimetype) == e
ClipboardBase_get_types(e) == <<>>

\* A backend over a system clipboard: one entry, offered under the listed
\* types; put replaces it.
EmptyEntry == [types |-> <<>>, data |-> NoneV]
Backend_get(e, mimetype) ==
    IF mimetype \in Range(e.types) THEN e.data ELSE NoneV
\* Variant: put adds the type to those offered instead of replacing them.
Backend_put_adds(e, data, mimetype) ==
    [types |-> Append(e.types, mimetype), data |-> data]
Backend_put(e, data, mimetype) == [types |-> <<mimetype>>, data |-> data]
Backend_get_types(e) == e.types

IsDummy(o) == cls[o] = "ClipboardDummy"

\* Method dispatch on the class of the object.
get(o, mimetype) ==
    IF IsDummy(o) THEN ClipboardBase_get(entry[o], mimetype)
    ELSE Backend_get(entry[o], mimetype)
put(o, data, mimetype) ==
    IF IsDummy(o) THEN ClipboardBase_put(entry[o], data, mimetype)
    ELSE Backend_put(entry[o], data, mimetype)
get_types(o) ==
    IF IsDummy(o) THEN ClipboardBase_get_types(entry[o])
    ELSE Backend_get_types(entry[o])

\* bool(data) as copy() tests it.
Truthy(data) == data.t # "none" /\ data.v # <<>>

\* Variant: `if data is not None:`.
copy_runs_not_none(data) == data.t # "none"

\* copy(): `if data:` decides whether _copy runs.
copy_runs(data) == Truthy(data)

\* Variant: the terminator appended on every platform.
_copy_bytes_always_nul(data, a, p) ==
    LET b == IF data.t = "bytes" THEN data.v ELSE encode(a._encoding, data.v)
    IN Bytes(Append(b, 0))

\* Variant: the text encoded as UTF-8 whatever self._encoding says.
_copy_bytes_utf8(data, a, p) ==
    LET b == IF data.t = "bytes" THEN data.v ELSE utf8_encode(data.v)
    IN Bytes(IF p = "win" THEN Append(b, 0) ELSE b)

\* _copy: the bytes handed to put, under attributes a on platform p.
_copy_bytes(data, a, p) ==
    LET b == IF data.t = "bytes" THEN data.v ELSE encode(a._encoding, data.v)
    IN Bytes(IF p = "win" THEN Append(b, 0) ELSE b)

\* _paste: the object whose get_types() is consulted.
_paste_types_of(o) == Clipboard

\* _paste: the mime type asked of get, given the attributes and the types seen.
_paste_mime(a, types) ==
    IF a._clip_mime_type \notin Range(types) THEN MIME_PLAIN
    ELSE a._clip_mime_type

\* Variant: no `is not None` test, so None.replace raises.
_paste_value_nocheck(data, a) ==
    IF data = NoneV THEN [exc |-> "AttributeError", ret |-> NoneV]
    ELSE [exc |-> "",
          ret |-> Str(replace_nul(IF data.t = "bytes"
                                  THEN decode_ignore(a._encoding, data.v)
                                  ELSE data.v))]

\* Variant: the decoded text returned without the replace.
_paste_value_keep_nul(data, a) ==
    IF data # NoneV
    THEN [exc |-> "",
          ret |-> Str(IF data.t = "bytes"
                      THEN decode_ignore(a._encoding, data.v)
                      ELSE data.v)]
    ELSE [exc |-> "", ret |-> Str(<<>>)]

\* _paste: the value returned for what get answered.
_paste_value(data, a) ==
    IF data # NoneV
    THEN [exc |-> "",
          ret |-> Str(replace_nul(IF data.t = "bytes"
                                  THEN decode_ignore(a._encoding, data.v)
                                  ELSE data.v))]
    ELSE [exc |-> "", ret |-> Str(<<>>)]

\* paste() on object o in the current state.
_paste(o) ==
    LET a == _ensure_clipboard(attr[o], platform)
        t == _paste_types_of(o)
        mime_type == _paste_mime(a, get_types(t))
        data == get(o, mime_type)
        r == _paste_value(data, a)
    IN [a |-> a, types_of |-> t, mime |-> mime_type, data |-> data,
        ret |-> r.ret, exc |-> r.exc]

----------------------------------------------------------------------------
(* The module body: selection of Clipboard, construction of CutBuffer.      *)

\* The outcomes an attempt to import module m (and construct its class) can
\* have: what an earlier attempt gave, and for a first attempt success or
\* failure, except that the no-op module always loads.
ImportOutcomes(m) ==
    IF imports[m] # "untried" THEN {imports[m]}
    ELSE IF m = DummyCandidate[2] THEN {"ok"}
    ELSE {"ok", "failed"}

\* What the system clipboard may hold when a backend first addresses it:
\* nothing, or another application's entry offered under several types.
InitEntries ==
    {EmptyEntry, [types |-> <<MIME_UTF8, MIME_PLAIN>>, data |-> Bytes(<<65>>)]}

NoCall == [op |-> "none", via |-> "", o |-> None, data |-> NoneV, mime |-> "",
           ret |-> NoneV, types |-> <<>>, exc |-> "", calls |-> <<>>,
           after |-> NoneV]

Init ==
    /\ platform \in Platforms
    /\ USE_SDL2 \in BOOLEAN
    /\ imports = [m \in Modules |-> "untried"]
    /\ pc = "select"
    /\ idx = 1
    /\ Clipboard = None
    /\ CutBuffer = None
    /\ cls = [o \in Objects |-> "unconstructed"]
    /\ attr = [o \in Objects |-> Unset]
    /\ entry = [o \in Objects |-> EmptyEntry]
    /\ last = NoCall

\* core_select_lib('clipboard', _clipboards, True): one candidate per step.
core_select_lib ==
    /\ pc = "select"
    /\ LET libs == _clipboards(platform, USE_SDL2)
       IN IF idx > Len(libs)
          THEN /\ pc' = "failed"
               /\ UNCHANGED <<idx, Clipboard, cls, entry, imports>>
          ELSE \E r \in ImportOutcomes(libs[idx][2]) :
               /\ imports' = [imports EXCEPT ![libs[idx][2]] = r]
               /\ IF r = "ok"
                  THEN /\ Clipboard' = "o1"
                       /\ cls' = [cls EXCEPT !["o1"] = libs[idx][3]]
                       /\ \E e \in InitEntries :
                             entry' = [entry EXCEPT !["o1"] =
                                          IF libs[idx][3] = "ClipboardDummy"
                                          THEN EmptyEntry ELSE e]
                       /\ pc' = "cutbuffer"
                       /\ idx' = idx
                  ELSE /\ idx' = idx + 1
                       /\ UNCHANGED <<pc, Clipboard, cls, entry>>
    /\ UNCHANGED <<env, CutBuffer, attr, last>>

\* Variant: a new ClipboardXsel constructed whatever Clipboard is.
CutBuffer_reuses_never(c) == FALSE

\* Line 161: isinstance(Clipboard, ClipboardXsel).
CutBuffer_reuses(c) == cls[c] = "ClipboardXsel"

\* Lines 153-165.
CutBufferSetup ==
    /\ pc = "cutbuffer"
    /\ pc' = "ready"
    /\ IF platform = "linux"
       THEN \E r \in ImportOutcomes("clipboard_xsel") :
            /\ imports' = [imports EXCEPT !["clipboard_xsel"] = r]
            /\ IF r = "ok"
               THEN IF CutBuffer_reuses(Clipboard)
                    THEN /\ CutBuffer' = Clipboard
                         /\ UNCHANGED <<cls, entry>>
                    ELSE /\ CutBuffer' = "o2"
                         /\ cls' = [cls EXCEPT !["o2"] = "ClipboardXsel"]
                         /\ \E e \in InitEntries :
                               entry' = [entry EXCEPT !["o2"] = e]
               ELSE /\ CutBuffer' = None
                    /\ UNCHANGED <<cls, entry>>
       ELSE /\ CutBuffer' = None
            /\ UNCHANGED <<cls, entry, imports>>
    /\ UNCHANGED <<env, idx, Clipboard, attr, last>>

----------------------------------------------------------------------------
(* The public surface, called through either module global.                 *)

Handles == {"Clipboard", "CutBuffer"}
Obj(h) == IF h = "Clipboard" THEN Clipboard ELSE CutBuffer
Call(o, f, data, mime) == [o |-> o, f |-> f, data |-> data, mime |-> mime]

Copy(h, data) ==
    /\ pc = "ready"
    /\ Obj(h) # None
    /\ LET o == Obj(h)
           a == _ensure_clipboard(attr[o], platform)
           b == _copy_bytes(data, a, platform)
       IN IF copy_runs(data)
          THEN /\ attr' = [attr EXCEPT ![o] = a]
               /\ entry' = [entry EXCEPT ![o] = put(o, b, a._clip_mime_type)]
               /\ last' = [NoCall EXCEPT !.op = "copy", !.via = h, !.o = o,
                              !.data = data,
                              !.calls = <<Call(o, "put", b, a._clip_mime_type)>>]
          ELSE /\ UNCHANGED <<attr, entry>>
               /\ last' = [NoCall EXCEPT !.op = "copy", !.via = h, !.o = o,
                              !.data = data]
    /\ UNCHANGED <<env, imports, pc, idx, Clipboard, CutBuffer, cls>>

Paste(h) ==
    /\ pc = "ready"
    /\ Obj(h) # None
    /\ LET o == Obj(h)
           r == _paste(o)
       IN /\ attr' = [attr EXCEPT ![o] = r.a]
          /\ last' = [NoCall EXCEPT !.op = "paste", !.via = h, !.o = o,
                         !.mime = r.mime, !.ret = r.ret, !.exc = r.exc,
                         !.calls = <<Call(r.types_of, "get_types", NoneV, ""),
                                     Call(o, "get", r.data, r.mime)>>,
                         !.after = IF last.op = "copy" /\ last.o = o
                                   THEN [t |-> "copy", v |-> last.data]
                                   ELSE NoneV]
    /\ UNCHANGED <<env, imports, pc, idx, Clipboard, CutBuffer, cls, entry>>

Put(h, data, mimetype) ==
    /\ pc = "ready"
    /\ Obj(h) # None
    /\ LET o == Obj(h)
       IN /\ entry' = [entry EXCEPT ![o] = put(o, data, mimetype)]
          /\ last' = [NoCall EXCEPT !.op = "put", !.via = h, !.o = o,
                         !.data = data, !.mime = mimetype,
                         !.calls = <<Call(o, "put", data, mimetype)>>]
    /\ UNCHANGED <<env, imports, pc, idx, Clipboard, CutBuffer, cls, attr>>

Get(h, mimetype) ==
    /\ pc = "ready"
    /\ Obj(h) # None
    /\ LET o == Obj(h)
       IN last' = [NoCall EXCEPT !.op = "get", !.via = h, !.o = o,
                      !.mime = mimetype, !.ret = get(o, mimetype),
                      !.calls = <<Call(o, "get", get(o, mimetype), mimetype)>>]
    /\ UNCHANGED <<env, imports, pc, idx, Clipboard, CutBuffer, cls, attr, entry>>

GetTypes(h) ==
    /\ pc = "ready"
    /\ Obj(h) # None
    /\ LET o == Obj(h)
       IN last' = [NoCall EXCEPT !.op = "get_types", !.via = h, !.o = o,
                      !.types = get_types(o),
                      !.calls = <<Call(o, "get_types", NoneV, "")>>]
    /\ UNCHANGED <<env, imports, pc, idx, Clipboard, CutBuffer, cls, attr, entry>>

Next ==
    \/ core_select_lib
    \/ CutBufferSetup
    \/ \E h \in Handles, data \in CopyArgs : Copy(h, data)
    \/ \E h \in Handles : Paste(h)
    \/ \E h \in Handles, data \in PutArgs, m \in Mimes : Put(h, data, m)
    \/ \E h \in Handles, m \in Mimes : Get(h, m)
    \/ \E h \in Handles : GetTypes(h)

Spec == Init /\ [][Next]_vars

----------------------------------------------------------------------------
(* Properties.                                                              *)

Canonical(p) == IF p \in {"win", "linux"} THEN MIME_UTF8 ELSE MIME_PLAIN
PlatformEncode(p, s) == IF p = "win" THEN utf16le_encode(s) ELSE utf8_encode(s)
Constructed(o) == o \in Objects /\ cls[o] # "unconstructed"
CopiedBefore == last.op = "paste" /\ last.after.t = "copy"

\* C1 (as stated): on every backend and for every ASCII text s, paste()
\* right after copy(s) on the same object returns s.
C1_RoundTripAnyText ==
    (CopiedBefore /\ last.after.v.t = "str") => last.ret = last.after.v

\* C1 (amended): on the Clipboard object, when its backend is not the no-op
\* one, paste() right after copy(s) returns s for every non-empty ASCII text
\* s that holds no NUL character.
C1_RoundTrip ==
    (/\ CopiedBefore
     /\ last.after.v.t = "str"
     /\ last.after.v.v # <<>>
     /\ 0 \notin Range(last.after.v.v)
     /\ last.o = Clipboard
     /\ ~IsDummy(last.o))
    => (last.ret = last.after.v /\ last.exc = "")

C1_Witness ==
    /\ CopiedBefore
    /\ last.after.v = Str(<<65, 65>>)
    /\ last.o = Clipboard
    /\ ~IsDummy(last.o)
    /\ platform = "win"
    /\ last.ret = Str(<<65, 65>>)

\* C2: the no-op candidate is the last entry (and only the last) of every
\* platform's list; selection never runs off the list; the selected class is
\* the candidate at idx, whose import succeeded, every candidate before it
\* having failed; so when all real candidates fail Clipboard is the no-op
\* backend.
C2_FirstSuccessWins ==
    /\ \A p \in Platforms, sdl2 \in BOOLEAN :
          LET l == _clipboards(p, sdl2)
          IN /\ l[Len(l)] = DummyCandidate
             /\ \A i \in 1..(Len(l) - 1) : l[i] # DummyCandidate
    /\ pc # "failed"
    /\ LET libs == _clipboards(platform, USE_SDL2)
       IN /\ idx <= Len(libs)
          /\ \A j \in 1..(idx - 1) : imports[libs[j][2]] = "failed"
          /\ pc # "select" =>
                /\ Clipboard # None
                /\ cls[Clipboard] = libs[idx][3]
                /\ imports[libs[idx][2]] = "ok"
                /\ (\A j \in 1..(Len(libs) - 1) : imports[libs[j][2]] = "failed")
                      => IsDummy(Clipboard)

C2_Witness ==
    /\ pc = "ready"
    /\ platform = "linux"
    /\ ~USE_SDL2
    /\ idx = 5
    /\ IsDummy(Clipboard)

\* C3: when get answers None for the mime type paste asks for, and always on
\* the no-op backend, paste() returns the empty text and raises nothing.
C3_EmptyPaste ==
    (last.op = "paste" /\ (last.calls[2].data = NoneV \/ IsDummy(last.o)))
    => (last.ret = Str(<<>>) /\ last.exc = "")

C3_Witness ==
    /\ last.op = "paste"
    /\ IsDummy(last.o)
    /\ last.after.t = "copy"
    /\ Truthy(last.after.v)
    /\ last.ret = Str(<<>>)

\* C4: in every state get(m) answers None for each mime type m that
\* get_types() does not list, and a get leaves every clipboard entry as it was.
C4_UnofferedIsNone ==
    /\ [](\A o \in Objects, m \in Mimes :
             (Constructed(o) /\ m \notin Range(get_types(o)))
             => get(o, m) = NoneV)
    /\ [](last.op = "get" /\ last.mime \notin Range(get_types(last.o))
             => last.ret = NoneV)
    /\ [][last'.op = "get" => entry' = entry]_vars

C4_Witness ==
    /\ last.op = "get"
    /\ ~IsDummy(last.o)
    /\ entry[last.o].types = <<MIME_PLAIN>>
    /\ last.mime = MIME_UTF8
    /\ last.ret = NoneV

\* C5: right after put(d, m) on a backend that is not the no-op one, get(m)
\* answers d and get_types() answers exactly [m]; a copy that ran leaves
\* exactly one type as well.
C5_PutReplaces ==
    /\ (last.op = "put" /\ ~IsDummy(last.o))
       => /\ get(last.o, last.mime) = last.data
          /\ get_types(last.o) = <<last.mime>>
    /\ (last.op = "copy" /\ last.calls # <<>> /\ ~IsDummy(last.o))
       => Len(get_types(last.o)) = 1

C5_Witness ==
    /\ last.op = "put"
    /\ ~IsDummy(last.o)
    /\ last.mime = MIME_PLAIN
    /\ last.data = Str(<<65, 0>>)
    /\ get_types(last.o) = <<MIME_PLAIN>>

CopyPutsOnce ==
    /\ Len(last.calls) = 1
    /\ last.calls[1].f = "put"
    /\ last.calls[1].o = last.o
    /\ last.calls[1].mime = Canonical(platform)
    /\ last.calls[1].data =
          Bytes((IF last.data.t = "bytes" THEN last.data.v
                 ELSE PlatformEncode(platform, last.data.v))
                \o (IF platform = "win" THEN <<0>> ELSE <<>>))

\* C6 (as stated): every copy(text) makes exactly one backend put, of the
\* platform's canonical mime type and of the text's bytes in the platform
\* encoding (bytes passed through), with one NUL byte appended on win only.
C6_CopyPutsOnceAlways ==
    (last.op = "copy" /\ last.data.t \in {"str", "bytes"}) => CopyPutsOnce

\* C6 (amended): the same, for every copy whose data is not empty (truthy).
C6_CopyPutsOnce == (last.op = "copy" /\ Truthy(last.data)) => CopyPutsOnce

C6_Witness ==
    /\ last.op = "copy"
    /\ platform = "win"
    /\ last.data = Str(<<65>>)
    /\ last.calls = <<Call(last.o, "put", Bytes(<<65, 0, 0>>), MIME_UTF8)>>

\* C7: paste() on an object reads the canonical mime type whenever that
\* object offers it, and 'text/plain' only when it does not.
C7_PasteReadsOwnTypes ==
    last.op = "paste"
    => last.mime = (IF Canonical(platform) \in Range(get_types(last.o))
                    THEN Canonical(platform) ELSE MIME_PLAIN)

OnCalls(o) == \A i \in DOMAIN last.calls : last.calls[i].o = o

\* C8 (as stated): on Linux with clipboard_xsel importable CutBuffer is a
\* ClipboardXsel that is another object than Clipboard, so that no call made
\* through CutBuffer is a call on the Clipboard object; elsewhere CutBuffer
\* is None.
C8_CutBufferSeparate ==
    pc = "ready" =>
        IF platform = "linux" /\ imports["clipboard_xsel"] = "ok"
        THEN /\ CutBuffer # None
             /\ cls[CutBuffer] = "ClipboardXsel"
             /\ CutBuffer # Clipboard
             /\ last.via = "CutBuffer" => last.o # Clipboard
        ELSE CutBuffer = None

\* C8 (amended): on Linux with clipboard_xsel importable CutBuffer is a
\* ClipboardXsel: the Clipboard object itself when the selected backend is
\* ClipboardXsel, and otherwise a separately constructed object, on which
\* alone copy, put, get and get_types through CutBuffer act; elsewhere
\* CutBuffer is None; the module body never fails.
C8_CutBuffer ==
    /\ pc # "failed"
    /\ pc = "ready" =>
        IF platform = "linux" /\ imports["clipboard_xsel"] = "ok"
        THEN /\ CutBuffer # None
             /\ cls[CutBuffer] = "ClipboardXsel"
             /\ (CutBuffer = Clipboard) <=> (cls[Clipboard] = "ClipboardXsel")
             /\ (last.via = "CutBuffer" /\ last.op # "paste")
                   => OnCalls(CutBuffer)
        ELSE CutBuffer = None

C8_Witness ==
    /\ pc = "ready"
    /\ CutBuffer # None
    /\ CutBuffer = Clipboard
    /\ last.via = "CutBuffer"
    /\ last.op = "copy"
    /\ last.calls # <<>>

\* C9: the text paste() returns holds no NUL character, whatever bytes or
\* text get answered, on every platform.
C9_NoNulInPaste ==
    last.op = "paste" => (last.ret.t = "str" /\ 0 \notin Range(last.ret.v))

C9_Witness ==
    /\ last.op = "paste"
    /\ platform = "win"
    /\ last.after = [t |-> "copy", v |-> Str(<<65>>)]
    /\ 0 \in Range(last.calls[2].data.v)
    /\ last.ret = Str(<<65>>)

\* C10: a copy() of empty data ('', b'', None) makes no backend call and
\* changes neither a clipboard entry nor the mime type / encoding attributes
\* nor what get_types() answers on any object, so that a paste() right after
\* copy('') still returns the text copied earlier (C10_Witness).
C10_EmptyCopyNoEffect ==
    [][(last'.op = "copy" /\ ~Truthy(last'.data))
       => /\ last'.calls = <<>>
          /\ entry' = entry
          /\ attr' = attr
          /\ \A o \in Objects :
                Constructed(o) => get_types(o)' = get_types(o)]_vars

C10_Witness ==
    /\ last.op = "paste"
    /\ last.after = [t |-> "copy", v |-> Str(<<>>)]
    /\ last.ret = Str(<<65, 65>>)

====
